---------------------------- MODULE Spec2Model ----------------------------
(***************************************************************************)
(* LocalDevManager (packages/cli/lib/LocalDevManager.js): the file-watch   *)
(* and sync orchestrator of `hs project dev`.                              *)
(*                                                                         *)
(* The program runs on one JavaScript event loop.  A step of the model is  *)
(* one turn of that loop: the code that runs from the arrival of an        *)
(* external event (a file event, a keypress, a signal, a timer expiry, the *)
(* settlement of a remote call) up to the next await of an external        *)
(* operation, including every promise continuation that the turn resolves  *)
(* (p-queue's onIdle and addAll promises settle inside the turn in which   *)
(* the last upload task completes).                                        *)
(***************************************************************************)
EXTENDS Integers, Sequences, FiniteSets, TLC

\* ------------------------------------------------------------ bounds
MaxEvents == 2      \* file events delivered by the watcher
MaxKeys   == 1      \* accepted y / n keypresses
MaxQuits  == 2      \* quit requests (q, ctrl-c, termination signals)
\* The same, for the sessions in which every call succeeds (SpecSteady).
SteadyEvents == 2
SteadyKeys   == 3
FairEvents   == 1
MaxFailures  == 1    \* failed upload / delete calls, failed execute calls
MaxPushes    == 2    \* calls of addChangeToStandbyQueue on its own
BurstExtra   == 2    \* file events beyond the queue's concurrency bound

\* ------------------------------------------------- program constants
Concurrency == 10   \* new PQueue({ concurrency: 10 })

UPLOAD_PERMISSIONS == {"always", "manual", "never"}
WATCH_EVENTS == {"add", "change", "unlink", "unlinkDir"}
EXIT_CODES == {"SUCCESS", "ERROR"}
NULL == 0           \* null build id

\* ---------------------------------------------------------- the inputs
\* The files the watcher reports.  projectSourceDir is "proj/src".
FilePaths == {"proj/src/App.jsx", "proj/src/index.html", "proj/src/dist/out.js"}

\* path.relative(this.projectSourceDir, filePath)
RemotePath(filePath) ==
  CASE filePath = "proj/src/App.jsx"     -> "App.jsx"
    [] filePath = "proj/src/index.html"  -> "index.html"
    [] filePath = "proj/src/dist/out.js" -> "dist/out.js"
    [] filePath = "proj/src/node_modules/lib.jsx" -> "node_modules/lib.jsx"
    [] filePath = "proj/src/node_modules/lib.css" -> "node_modules/lib.css"

\* changeInfo.filePath.includes('dist')
IncludesDist(filePath) == filePath \in {"proj/src/dist/out.js"}

\* isAllowedExtension(filePath, ['jsx'])
isAllowedExtension(filePath) ==
  filePath \in {"proj/src/App.jsx", "proj/src/node_modules/lib.jsx"}

\* Files the project ignore rules match.  The watcher is created with the
\* same rules (line 79), so it reports none of them.
IgnoredPaths ==
  {"proj/src/node_modules/lib.jsx", "proj/src/node_modules/lib.css"}

\* shouldIgnoreFile(filePath, true): the project ignore rules; none of the
\* watched files above matches them.
shouldIgnoreFile(filePath) == filePath \in IgnoredPaths

\* The arguments addChangeToStandbyQueue is given when it is exercised on
\* its own: every event kind, with files of an allowed and of another
\* extension, ignored or not, marked supported or not.
PushInputs ==
  [event : WATCH_EVENTS,
   filePath : {"proj/src/App.jsx", "proj/src/index.html"} \cup IgnoredPaths,
   supported : BOOLEAN]

\* The (event, file) pairs chokidar delivers in the model.
WatchInputs ==
  { <<"change", "proj/src/App.jsx">>,
    <<"unlink", "proj/src/App.jsx">>,
    <<"add", "proj/src/index.html">>,
    <<"unlinkDir", "proj/src/index.html">>,
    <<"change", "proj/src/dist/out.js">> }

NotifyOutcomes == {"uploadRequired", "notRequired", "throws"}
ProvisionOutcomes == {"ok", "PROJECT_LOCKED", "error"}
QueueOutcomes == {"ok", "MISSING_PROJECT_PROVISION", "error"}
CancelOutcomes == {"ok", "BUILD_NOT_IN_PROGRESS", "error"}

VARIABLES
  uploadPermission,      \* this.uploadPermission
  mainPc,                \* position of start()
  watcherClosed,         \* the chokidar watcher has been closed
  standbyChanges,        \* this.standbyChanges
  isPaused,              \* this.uploadQueue.isPaused
  queue,                 \* upload queue: tasks submitted and not started
  pending,               \* upload queue: tasks running (remote call in flight)
  timers,                \* number of setTimeout callbacks not yet expired
  debouncedBuild,        \* this.debouncedBuild: "null", "pending" or "fired"
  currentStagedBuildId,  \* this.currentStagedBuildId
  devModeStatus,         \* text key of the devModeStatus spinner
  handlers,              \* handleWatchEvent invocations
  keys,                  \* manual 'y' approvals in progress
  builds,                \* queueBuild invocations
  stops,                 \* stop invocations
  groups,                \* uploadQueue.addAll promises: tasks left, awaiter
  exitCode,              \* "none" while the process runs, else its exit code
  staged,                \* remote: builds provisioned, not queued or cancelled
  nextBuildId,           \* remote: next build id
  nextTask,              \* number of uploadQueue.add calls so far
  sent,                  \* uploadFileToBuild/deleteFileFromBuild calls made
  flushed,               \* ids of the changes flushStandbyChanges has scheduled
  calls,                 \* counters of remote calls and of debounce bursts
  nQuits                 \* quit requests received

vars == << uploadPermission, mainPc, watcherClosed, standbyChanges, isPaused,
           queue, pending, timers, debouncedBuild, currentStagedBuildId,
           devModeStatus, handlers, keys, builds, stops, groups, exitCode,
           staged, nextBuildId, nextTask, sent, flushed, calls, nQuits >>

\* The whole state as one record: the code of one turn is a composition of
\* functions of it.
Cur ==
  [ uploadPermission |-> uploadPermission, mainPc |-> mainPc,
    watcherClosed |-> watcherClosed, standbyChanges |-> standbyChanges,
    isPaused |-> isPaused, queue |-> queue, pending |-> pending,
    timers |-> timers, debouncedBuild |-> debouncedBuild,
    currentStagedBuildId |-> currentStagedBuildId,
    devModeStatus |-> devModeStatus, handlers |-> handlers, keys |-> keys,
    builds |-> builds, stops |-> stops, groups |-> groups,
    exitCode |-> exitCode, staged |-> staged, nextBuildId |-> nextBuildId,
    nextTask |-> nextTask, sent |-> sent, flushed |-> flushed,
    calls |-> calls, nQuits |-> nQuits ]

Becomes(s) ==
  /\ uploadPermission' = s.uploadPermission
  /\ mainPc' = s.mainPc
  /\ watcherClosed' = s.watcherClosed
  /\ standbyChanges' = s.standbyChanges
  /\ isPaused' = s.isPaused
  /\ queue' = s.queue
  /\ pending' = s.pending
  /\ timers' = s.timers
  /\ debouncedBuild' = s.debouncedBuild
  /\ currentStagedBuildId' = s.currentStagedBuildId
  /\ devModeStatus' = s.devModeStatus
  /\ handlers' = s.handlers
  /\ keys' = s.keys
  /\ builds' = s.builds
  /\ stops' = s.stops
  /\ groups' = s.groups
  /\ exitCode' = s.exitCode
  /\ staged' = s.staged
  /\ nextBuildId' = s.nextBuildId
  /\ nextTask' = s.nextTask
  /\ sent' = s.sent
  /\ flushed' = s.flushed
  /\ calls' = s.calls
  /\ nQuits' = s.nQuits


\* ------------------------------------------------------ small helpers
\* A finished handleWatchEvent invocation holds no changeInfo any more.
NoChange(h) == [id |-> h, event |-> "none", filePath |-> "", remotePath |-> "",
                supported |-> FALSE]
handlerDone(s, h) ==
  [s EXCEPT !.handlers[h].pc = "done", !.handlers[h].change = NoChange(h),
            !.handlers[h].group = 0]

IsUpsert(event) == event \in {"add", "change"}
Running(s) == s.exitCode = "none"

\* process.exit(code): the process and all of its memory are gone; what
\* is left of the session is its exit code.
processExit(s, code) ==
  [s EXCEPT !.exitCode = code, !.mainPc = "exited", !.watcherClosed = TRUE,
            !.standbyChanges = << >>, !.isPaused = FALSE, !.queue = << >>,
            !.pending = {}, !.timers = 0, !.debouncedBuild = "null",
            !.currentStagedBuildId = NULL, !.devModeStatus = "clean",
            !.handlers = << >>, !.keys = << >>, !.builds = << >>,
            !.stops = << >>, !.groups = << >>, !.staged = {},
            !.nextBuildId = 1, !.nextTask = 0, !.sent = {}, !.flushed = {},
            !.calls = [provisionBuild |-> 0, queueBuild |-> 0,
                       cancelStagedBuild |-> 0, executeServers |-> 0,
                       bursts |-> 0, timerBuilds |-> 0,
                       failedUploads |-> 0, failedExecutes |-> 0],
            !.nQuits = 0]

\* updateDevModeStatus(langKey), lines 263-269
updateDevModeStatus(s, langKey) == [s EXCEPT !.devModeStatus = langKey]

\* hasAnyUnsupportedStandbyChanges(), lines 276-278
hasAnyUnsupportedStandbyChanges(s) ==
  \E i \in 1..Len(s.standbyChanges) : ~s.standbyChanges[i].supported

\* this.standbyChanges.find(c => c.filePath === filePath)
standbyFind(s, filePath) ==
  \E i \in 1..Len(s.standbyChanges) : s.standbyChanges[i].filePath = filePath

\* Mutant: the extension allow-list is applied to every event kind.
addChangeToStandbyQueue_FiltersDeletes(s, changeInfo) ==
  IF ~isAllowedExtension(changeInfo.filePath)
    THEN s
  ELSE IF shouldIgnoreFile(changeInfo.filePath)
    THEN s
  ELSE [s EXCEPT !.standbyChanges = Append(@, changeInfo)]

\* addChangeToStandbyQueue(changeInfo), lines 413-428
addChangeToStandbyQueue(s, changeInfo) ==
  IF IsUpsert(changeInfo.event) /\ ~isAllowedExtension(changeInfo.filePath)
    THEN s
  ELSE IF shouldIgnoreFile(changeInfo.filePath)
    THEN s
  ELSE [s EXCEPT !.standbyChanges = Append(@, changeInfo)]

\* Mutant: the pending timer is not cancelled before a new one is armed.
clearDebouncedBuild_Forgotten(s) == s

\* clearTimeout(this.debouncedBuild): cancels the timer the handle names,
\* if it has not expired yet.
clearDebouncedBuild(s) ==
  IF s.debouncedBuild = "pending" THEN [s EXCEPT !.timers = @ - 1] ELSE s

\* debounceQueueBuild(), lines 470-483.  calls.bursts counts the bursts of
\* arm-calls: an arm-call opens a burst when no timer is pending.
debounceQueueBuild(s) ==
  LET s1 == IF s.uploadPermission = "always"
              THEN updateDevModeStatus(s, "uploadPending") ELSE s
      s2 == IF s1.debouncedBuild # "null" THEN clearDebouncedBuild(s1) ELSE s1
  IN  [s2 EXCEPT !.timers = @ + 1,
                 !.debouncedBuild = "pending",
                 !.calls.bursts = IF s.timers = 0 THEN @ + 1 ELSE @]

\* A task of the upload queue starts: the function given to add / addAll
\* runs up to its remote call.  A task made by flushStandbyChanges (group
\* # 0, lines 553-561) first re-arms the debounce timer; sendChanges
\* (lines 430-468) then calls uploadFileToBuild or deleteFileFromBuild.
\* The call names the project and not a build (lines 442-447, 452-456): it
\* reaches whatever build the project has staged at that moment, which
\* the record of the call keeps.
runTask(s, task) ==
  LET s1 == IF /\ task.group # 0
               /\ s.uploadPermission = "always"
               /\ ~s.isPaused
              THEN debounceQueueBuild(s) ELSE s
      call == [id |-> task.id, change |-> task.change, group |-> task.group,
               staged |-> s.staged]
  IN  [s1 EXCEPT !.pending = @ \cup {task}, !.sent = @ \cup {call}]

\* p-queue _tryToStartAnother: start the head of the queue if the queue is
\* running and a concurrency slot is free.
tryToStartAnother(s) ==
  IF Len(s.queue) = 0 \/ s.isPaused \/ Cardinality(s.pending) >= Concurrency
    THEN s
    ELSE runTask([s EXCEPT !.queue = Tail(@)], Head(s.queue))

\* p-queue _processQueue: while (this._tryToStartAnother()) {}
RECURSIVE processQueue(_)
processQueue(s) ==
  IF Len(s.queue) = 0 \/ s.isPaused \/ Cardinality(s.pending) >= Concurrency
    THEN s
    ELSE processQueue(tryToStartAnother(s))

\* this.uploadQueue.add(fn): the task's id is its submission number.
uploadQueueAdd(s, changeInfo, group) ==
  LET task == [id |-> s.nextTask + 1, change |-> changeInfo, group |-> group]
  IN  tryToStartAnother([s EXCEPT !.queue = Append(@, task),
                                  !.nextTask = @ + 1])

\* Mutant: the tasks of a flush are submitted last entry first.
RECURSIVE uploadQueueAddAll_Reversed(_, _, _)
uploadQueueAddAll_Reversed(s, changes, group) ==
  IF Len(changes) = 0 THEN s
  ELSE uploadQueueAddAll_Reversed(
         uploadQueueAdd(s, changes[Len(changes)], group),
         SubSeq(changes, 1, Len(changes) - 1), group)

\* this.uploadQueue.addAll(fns): add is called for each function in order.
RECURSIVE uploadQueueAddAll(_, _, _)
uploadQueueAddAll(s, changes, group) ==
  IF Len(changes) = 0 THEN s
  ELSE uploadQueueAddAll(uploadQueueAdd(s, Head(changes), group),
                         Tail(changes), group)

\* Mutant: the upload queue is not resumed.
uploadQueueStart_Forgotten(s) == s

\* this.uploadQueue.start(), line 540
uploadQueueStart(s) ==
  IF ~s.isPaused THEN s ELSE processQueue([s EXCEPT !.isPaused = FALSE])

\* this.uploadQueue.pause(), line 272
pauseUploadQueue(s) == [s EXCEPT !.isPaused = TRUE]

\* await this.uploadQueue.onIdle(), line 273: settled when nothing is
\* queued and nothing is running.
onIdle(s) == Len(s.queue) = 0 /\ s.pending = {}

\* stop(), lines 105-112: the synchronous part, up to watcher.close().
\* graceful is the argument of the call ("undefined" when there is none);
\* the invocation remembers whether it is the teardown of a hangup.
stop(s, graceful) ==
  [s EXCEPT !.watcherClosed = TRUE,
            !.stops = Append(@, [pc |-> "stopWatching",
                                  hangup |-> (graceful = "false"),
                                  cancelCalls |-> 0])]

\* queueBuild(), lines 495-496: the remote queueBuild call is issued.
issueQueueBuild(s, b) ==
  [s EXCEPT !.builds[b].pc = "queueBuild", !.calls.queueBuild = @ + 1]

\* queueBuild(), lines 485-493: a new invocation pauses the upload queue
\* and awaits onIdle; when the queue is idle already it goes on to the
\* remote call in the same turn.
queueBuild(s, src) ==
  LET b  == Len(s.builds) + 1
      s1 == [pauseUploadQueue(s) EXCEPT
               !.builds = Append(@, [pc |-> "onIdle", src |-> src])]
  IN  IF onIdle(s1) THEN issueQueueBuild(s1, b) ELSE s1

\* The onIdle promises settle: every queueBuild invocation that awaits
\* one goes on to its remote call.
RECURSIVE resolveIdle(_, _)
resolveIdle(s, b) ==
  IF b > Len(s.builds) THEN s
  ELSE resolveIdle(IF s.builds[b].pc = "onIdle" THEN issueQueueBuild(s, b)
                                                 ELSE s, b + 1)

\* createNewStagingBuild(), lines 281-285: provisionBuild is called.
createNewStagingBuild(s) == [s EXCEPT !.calls.provisionBuild = @ + 1]

\* What follows `await this.flushStandbyChanges()` in its caller:
\* handleWatchEvent lines 353-359, the 'y' handler line 250, nothing at
\* line 543.
afterFlush(s, awaiter) ==
  CASE awaiter[1] = "handler" ->
         LET h  == awaiter[2]
             s1 == IF ~s.isPaused THEN debounceQueueBuild(s) ELSE s
             s2 == uploadQueueAdd(s1, s.handlers[h].change, 0)
         IN  handlerDone(s2, h)
    [] awaiter[1] = "key" ->
         queueBuild([s EXCEPT !.keys[awaiter[2]].pc = "done"], "manual")
    [] OTHER -> s

setAwaiting(s, awaiter, g) ==
  CASE awaiter[1] = "handler" ->
         [s EXCEPT !.handlers[awaiter[2]].pc = "flushStandbyChanges",
                   !.handlers[awaiter[2]].group = g]
    [] awaiter[1] = "key" ->
         [s EXCEPT !.keys[awaiter[2]].pc = "flushStandbyChanges",
                   !.keys[awaiter[2]].group = g]
    [] OTHER -> s

\* flushStandbyChanges(), lines 549-563: with a non-empty buffer every
\* entry becomes a task and the caller awaits addAll; line 564 runs when
\* addAll settles (flushSettles).
flushStandbyChanges(s, awaiter) ==
  IF Len(s.standbyChanges) = 0 THEN afterFlush(s, awaiter)
  ELSE
    LET g  == Len(s.groups) + 1
        s1 == [s EXCEPT
                 !.groups = Append(@, [left |-> Len(s.standbyChanges),
                                       awaiter |-> awaiter]),
                 !.flushed = @ \cup {s.standbyChanges[i].id :
                                       i \in 1..Len(s.standbyChanges)}]
    IN  setAwaiting(uploadQueueAddAll(s1, s.standbyChanges, g), awaiter, g)

\* flushStandbyChanges(), line 564, and the caller's continuation.
flushSettles(s, g) ==
  afterFlush([s EXCEPT !.standbyChanges = << >>], s.groups[g].awaiter)

\* queueBuild(), lines 540-546
finishQueueBuild(s, b) ==
  LET s1 == uploadQueueStart([s EXCEPT !.builds[b].pc = "done"])
  IN  IF hasAnyUnsupportedStandbyChanges(s1)
        THEN flushStandbyChanges(s1, <<"none", 0>>)
        ELSE updateDevModeStatus(s1, "clean")


\* Mutant: permission Never is treated like Manual.
handlePreventedUpload_AsManual(s, changeInfo) ==
  LET s1 == updateDevModeStatus(s, "manualUploadRequired")
  IN  IF ~standbyFind(s1, changeInfo.filePath)
        THEN addChangeToStandbyQueue(s1, changeInfo)
        ELSE s1

\* handlePreventedUpload(changeInfo), lines 363-411
handlePreventedUpload(s, changeInfo) ==
  IF s.uploadPermission = "never"
    THEN updateDevModeStatus(s, "noUploadsAllowed")
    ELSE LET s1 == updateDevModeStatus(s, "manualUploadRequired")
         IN  IF ~standbyFind(s1, changeInfo.filePath)
               THEN addChangeToStandbyQueue(s1, changeInfo)
               ELSE s1

\* Mutant: the response a failed notify leaves is uploadRequired = false.
notifyServers_DefaultFalse(outcome) == outcome = "uploadRequired"

\* notifyServers(changeInfo), lines 600-616: the uploadRequired of the
\* response it returns, by what DevServerManager.notify did.
notifyServers(outcome) ==
  IF outcome = "throws" THEN TRUE ELSE outcome = "uploadRequired"

\* Mutant: a failure of DevServerManager.execute is not caught.
executeServers_Uncaught(s, ok) ==
  IF ok THEN [s EXCEPT !.calls.executeServers = @ + 1]
        ELSE processExit(s, "ERROR")

\* executeServers(changeInfo, notifyResponse), lines 618-630, from the call
\* to its return: ok tells whether DevServerManager.execute succeeded; its
\* failure is caught and only reported.
executeServers(s, ok) ==
  [s EXCEPT !.calls.executeServers = @ + 1,
            !.calls.failedExecutes = IF ok THEN @ ELSE @ + 1]

\* handleWatchEvent(filePath, event), lines 329-352: from the return of
\* notifyServers to the end or to the await of flushStandbyChanges.  The
\* handler does nothing after its await of executeServers, so the call
\* and its return (with outcome ok) are part of the same step.
handleWatchEvent(s, h, outcome, ok) ==
  LET changeInfo == s.handlers[h].change
      sn == [s EXCEPT !.handlers[h].notify = outcome]
      s0 == handlerDone(sn, h)
  IN  IF ~notifyServers(outcome)
        THEN LET s1 == updateDevModeStatus(s0, "supportedChange")
                 s2 == addChangeToStandbyQueue(
                         s1, [changeInfo EXCEPT !.supported = TRUE])
             IN  executeServers(s2, ok)
      ELSE IF s0.uploadPermission # "always"
        THEN handlePreventedUpload(s0, changeInfo)
      ELSE IF s0.isPaused
        THEN IF ~standbyFind(s0, changeInfo.filePath)
               THEN addChangeToStandbyQueue(s0, changeInfo)
               ELSE s0
      ELSE flushStandbyChanges(sn, <<"handler", h>>)

\* Mutant: a change whose upload failed is put back into the upload queue.
taskSettles_Retry(s, task, ok) ==
  LET sf == IF ok THEN s ELSE [s EXCEPT !.calls.failedUploads = @ + 1,
                                        !.queue = Append(@, task)]
      s1 == tryToStartAnother([sf EXCEPT !.pending = @ \ {task}])
      s2 == IF onIdle(s1) THEN resolveIdle(s1, 1) ELSE s1
      g  == task.group
  IN  IF g = 0 \/ ~ok THEN s2
      ELSE LET s3 == [s2 EXCEPT !.groups[g].left = @ - 1]
           IN  IF s3.groups[g].left = 0 THEN flushSettles(s3, g) ELSE s3

\* An upload task settles; ok tells whether uploadFileToBuild or
\* deleteFileFromBuild succeeded.  sendChanges (lines 440-460) catches a
\* failure and logs it, so the task completes either way: p-queue's _next
\* starts the next task, the onIdle promises settle if the queue is idle,
\* and the addAll promise of the task's flush settles if it was its last
\* task.
taskSettles(s, task, ok) ==
  LET sf == IF ok THEN s ELSE [s EXCEPT !.calls.failedUploads = @ + 1]
      s1 == tryToStartAnother([sf EXCEPT !.pending = @ \ {task}])
      s2 == IF onIdle(s1) THEN resolveIdle(s1, 1) ELSE s1
      g  == task.group
  IN  IF g = 0 THEN s2
      ELSE LET s3 == [s2 EXCEPT !.groups[g].left = @ - 1]
           IN  IF s3.groups[g].left = 0 THEN flushSettles(s3, g) ELSE s3

\* The caller of createNewStagingBuild that awaits its remote call.
Callers(s) ==
  {<<"main", 0>>} \cup {<<"key", k>> : k \in 1..Len(s.keys)}
                  \cup {<<"build", b>> : b \in 1..Len(s.builds)}

callerPc(s, who) ==
  CASE who[1] = "main"  -> s.mainPc
    [] who[1] = "key"   -> s.keys[who[2]].pc
    [] who[1] = "build" -> s.builds[who[2]].pc

setCallerPc(s, who, pc) ==
  CASE who[1] = "main"  -> [s EXCEPT !.mainPc = pc]
    [] who[1] = "key"   -> [s EXCEPT !.keys[who[2]].pc = pc]
    [] who[1] = "build" -> [s EXCEPT !.builds[who[2]].pc = pc]

\* Mutant: the 'y' handler queues the build without flushing the buffer.
afterProvision_SkipFlush(s, who) ==
  CASE who[1] = "main"  -> [s EXCEPT !.mainPc = "watching"]
    [] who[1] = "key"   -> afterFlush(s, who)
    [] who[1] = "build" -> finishQueueBuild(s, who[2])

\* What follows `await this.createNewStagingBuild()`: startWatching lines
\* 302-313, the 'y' handler line 249, queueBuild lines 540-546.
afterProvision(s, who) ==
  CASE who[1] = "main"  -> [s EXCEPT !.mainPc = "watching"]
    [] who[1] = "key"   -> flushStandbyChanges(s, who)
    [] who[1] = "build" -> finishQueueBuild(s, who[2])

\* createNewStagingBuild(), lines 286-294: provisionBuild has settled.
provisionSettles(s, who, outcome) ==
  CASE outcome = "ok" ->
         afterProvision([s EXCEPT !.currentStagedBuildId = s.nextBuildId,
                                  !.staged = @ \cup {s.nextBuildId},
                                  !.nextBuildId = @ + 1], who)
    [] outcome = "PROJECT_LOCKED" ->
         [setCallerPc(s, who, "cancelStagedBuild") EXCEPT
            !.calls.cancelStagedBuild = @ + 1]
    [] OTHER -> processExit(s, "ERROR")

\* --------------------------------------------------------------- Init
Init ==
  /\ uploadPermission \in UPLOAD_PERMISSIONS
  /\ mainPc = "start"
  /\ watcherClosed = FALSE
  /\ standbyChanges = << >>
  /\ isPaused = FALSE
  /\ queue = << >>
  /\ pending = {}
  /\ timers = 0
  /\ debouncedBuild = "null"
  /\ currentStagedBuildId = NULL
  /\ devModeStatus = "clean"
  /\ handlers = << >>
  /\ keys = << >>
  /\ builds = << >>
  /\ stops = << >>
  /\ groups = << >>
  /\ exitCode = "none"
  /\ staged = {}
  /\ nextBuildId = 1
  /\ nextTask = 0
  /\ sent = {}
  /\ flushed = {}
  /\ calls = [provisionBuild |-> 0, queueBuild |-> 0, cancelStagedBuild |-> 0,
              executeServers |-> 0, bursts |-> 0, timerBuilds |-> 0,
              failedUploads |-> 0, failedExecutes |-> 0]
  /\ nQuits = 0

\* ------------------------------------------------------------ actions
\* start(), lines 74-99, and startWatching(), lines 297-300.
Start ==
  /\ exitCode = "none" /\ mainPc = "start"
  /\ Becomes(IF uploadPermission = "always"
               THEN [createNewStagingBuild(Cur) EXCEPT
                       !.mainPc = "provisionBuild"]
               ELSE [Cur EXCEPT !.mainPc = "watching"])

\* provisionBuild settles, for any caller of createNewStagingBuild.
ProvisionBuildSettles(who, outcome) ==
  /\ exitCode = "none"
  /\ who \in Callers(Cur) /\ callerPc(Cur, who) = "provisionBuild"
  /\ Becomes(provisionSettles(Cur, who, outcome))

\* createNewStagingBuild(), lines 290-293: the cancelStagedBuild of the
\* catch block settles; when it throws, process.exit is not reached and
\* the caller's promise rejects.
LockedCancelSettles(who, ok) ==
  /\ exitCode = "none"
  /\ who \in Callers(Cur) /\ callerPc(Cur, who) = "cancelStagedBuild"
  /\ Becomes(IF ok THEN processExit([Cur EXCEPT !.staged = {}], "ERROR")
                   ELSE setCallerPc(Cur, who, "rejected"))

\* chokidar delivers a file event: handleWatchEvent lines 316-327.
WatchEvent(input, max) ==
  /\ exitCode = "none" /\ mainPc = "watching" /\ ~watcherClosed
  /\ Len(handlers) < max
  /\ LET h == Len(handlers) + 1
         changeInfo == [id |-> h, event |-> input[1], filePath |-> input[2],
                        remotePath |-> RemotePath(input[2]),
                        supported |-> FALSE]
     IN  handlers' = Append(handlers,
           IF IncludesDist(input[2])
             THEN [pc |-> "done", change |-> NoChange(h), notify |-> "none",
                   group |-> 0]
             ELSE [pc |-> "notifyServers", change |-> changeInfo,
                   notify |-> "none", group |-> 0])
  /\ UNCHANGED << uploadPermission, mainPc, watcherClosed, standbyChanges,
                  isPaused, queue, pending, timers, debouncedBuild,
                  currentStagedBuildId, devModeStatus, keys, builds, stops,
                  groups, exitCode, staged, nextBuildId, nextTask, sent,
                  flushed, calls, nQuits >>

\* DevServerManager.notify settles.
NotifySettles(h, outcome) ==
  /\ exitCode = "none"
  /\ h \in 1..Len(handlers) /\ handlers[h].pc = "notifyServers"
  /\ \E ok \in BOOLEAN :
       /\ ok \/ calls.failedExecutes < MaxFailures
       /\ Becomes(handleWatchEvent(Cur, h, outcome, ok))

\* uploadFileToBuild / deleteFileFromBuild settles, with success or not.
UploadSettles(task, ok) ==
  /\ exitCode = "none"
  /\ task \in pending
  /\ ok \/ calls.failedUploads < MaxFailures
  /\ Becomes(taskSettles(Cur, task, ok))

\* A debounce timer expires: setTimeout calls queueBuild (lines 479-482).
TimerExpires ==
  /\ exitCode = "none" /\ timers > 0
  /\ Becomes(queueBuild(
       [Cur EXCEPT !.timers = @ - 1,
                   !.debouncedBuild =
                      IF timers = 1 /\ @ = "pending" THEN "fired" ELSE @,
                   !.calls.timerBuilds = @ + 1], "timer"))

\* Mutant: 'y' and 'n' are accepted under every upload permission.
manualPrompt_AnyPermission(s) == hasAnyUnsupportedStandbyChanges(s)

\* The keypress listener's guard for y / n, lines 230-234.
manualPrompt(s) ==
  s.uploadPermission = "manual" /\ hasAnyUnsupportedStandbyChanges(s)

\* 'y', lines 240-248
KeyY(max) ==
  /\ exitCode = "none" /\ mainPc = "watching" /\ Len(keys) < max
  /\ manualPrompt(Cur)
  /\ Becomes([createNewStagingBuild(updateDevModeStatus(Cur, "manualUpload"))
               EXCEPT !.keys = Append(@, [pc |-> "provisionBuild",
                                          group |-> 0])])

\* Mutant: declining discards the buffered changes.
KeyN_Discards(max) ==
  /\ exitCode = "none" /\ mainPc = "watching" /\ Len(keys) < max
  /\ manualPrompt(Cur)
  /\ Becomes([Cur EXCEPT !.standbyChanges = << >>,
                         !.keys = Append(@, [pc |-> "declined",
                                             group |-> 0])])

\* 'n', lines 251-258
KeyN(max) ==
  /\ exitCode = "none" /\ mainPc = "watching" /\ Len(keys) < max
  /\ manualPrompt(Cur)
  /\ Becomes([Cur EXCEPT !.keys = Append(@, [pc |-> "declined",
                                             group |-> 0])])

\* 'q' or ctrl-c, lines 228-229
KeyQuit ==
  /\ exitCode = "none" /\ mainPc = "watching" /\ nQuits < MaxQuits
  /\ Becomes(stop([Cur EXCEPT !.nQuits = @ + 1], "undefined"))

\* handleExit(({ isSIGHUP }) => LocalDev.stop(!isSIGHUP)), dev.ts line 237
ExitSignal(isSIGHUP) ==
  /\ exitCode = "none" /\ mainPc = "watching" /\ nQuits < MaxQuits
  /\ Becomes(stop([Cur EXCEPT !.nQuits = @ + 1],
                  IF isSIGHUP THEN "false" ELSE "true"))

\* Mutant: a failure of DevServerManager.cleanup() is not caught.
stopAfterCleanup_Uncaught(s, i, ok) ==
  IF ~ok THEN [s EXCEPT !.stops[i].pc = "rejected"]
  ELSE IF s.currentStagedBuildId # NULL
    THEN [s EXCEPT !.stops[i].pc = "cancelStagedBuild",
                   !.stops[i].cancelCalls = @ + 1,
                   !.calls.cancelStagedBuild = @ + 1]
    ELSE processExit([s EXCEPT !.stops[i].pc = "done"], "SUCCESS")

\* stop(), lines 112-119 and 138-148: watcher.close() and then
\* DevServerManager.cleanup() have settled; nothing of the state is read
\* or written between the two.  ok tells whether cleanup succeeded:
\* cleanupServers (lines 632-644) catches its failure, so stop() goes on
\* in the same way.
stopAfterCleanup(s, i, ok) ==
  IF s.currentStagedBuildId # NULL
    THEN [s EXCEPT !.stops[i].pc = "cancelStagedBuild",
                   !.stops[i].cancelCalls = @ + 1,
                   !.calls.cancelStagedBuild = @ + 1]
    ELSE processExit([s EXCEPT !.stops[i].pc = "done"], "SUCCESS")

CleanupSettles(i, ok) ==
  /\ exitCode = "none"
  /\ i \in 1..Len(stops) /\ stops[i].pc = "stopWatching"
  /\ Becomes(stopAfterCleanup(Cur, i, ok))

\* stop(), lines 119-148: cancelStagedBuild settles.
stopAfterCancel(s, i, outcome) ==
  LET s1 == [s EXCEPT !.stops[i].pc = "done",
                      !.staged = IF outcome = "ok" THEN {} ELSE @]
  IN  processExit(s1, IF outcome \in {"ok", "BUILD_NOT_IN_PROGRESS"}
                        THEN "SUCCESS" ELSE "ERROR")

StopCancelSettles(i, outcome) ==
  /\ exitCode = "none"
  /\ i \in 1..Len(stops) /\ stops[i].pc = "cancelStagedBuild"
  /\ Becomes(stopAfterCancel(Cur, i, outcome))

\* Mutant: a missing project provision is handled like any other failure.
queueBuildSettles_NoStop(s, b, outcome) ==
  CASE outcome = "ok" ->
         [s EXCEPT !.builds[b].pc = "poll", !.staged = {}]
    [] OTHER -> [s EXCEPT !.builds[b].pc = "done"]

\* queueBuild(), lines 496-524: the remote queueBuild call settles.
queueBuildSettles(s, b, outcome) ==
  CASE outcome = "ok" ->
         [s EXCEPT !.builds[b].pc = "poll", !.staged = {}]
    [] outcome = "MISSING_PROJECT_PROVISION" ->
         stop([s EXCEPT !.builds[b].pc = "done"], "undefined")
    [] OTHER -> [s EXCEPT !.builds[b].pc = "done"]

QueueBuildSettles(b, outcome) ==
  /\ exitCode = "none"
  /\ b \in 1..Len(builds) /\ builds[b].pc = "queueBuild"
  /\ Becomes(queueBuildSettles(Cur, b, outcome))

\* queueBuild(), lines 518-538: pollProjectBuildAndDeploy settles; it is
\* not inside a try, so when it throws the invocation rejects.
pollSettles(s, b, ok) ==
  IF ~ok THEN [s EXCEPT !.builds[b].pc = "rejected"]
  ELSE IF s.uploadPermission = "always"
    THEN [createNewStagingBuild(s) EXCEPT !.builds[b].pc = "provisionBuild"]
  ELSE finishQueueBuild(s, b)

PollSettles(b, ok) ==
  /\ exitCode = "none"
  /\ b \in 1..Len(builds) /\ builds[b].pc = "poll"
  /\ Becomes(pollSettles(Cur, b, ok))

Next ==
  \/ Start
  \/ \E who \in Callers(Cur), outcome \in ProvisionOutcomes :
       ProvisionBuildSettles(who, outcome)
  \/ \E who \in Callers(Cur), ok \in BOOLEAN : LockedCancelSettles(who, ok)
  \/ \E input \in WatchInputs : WatchEvent(input, MaxEvents)
  \/ \E h \in 1..Len(handlers), outcome \in NotifyOutcomes :
       NotifySettles(h, outcome)
  \/ \E task \in pending, ok \in BOOLEAN : UploadSettles(task, ok)
  \/ TimerExpires
  \/ KeyY(MaxKeys)
  \/ KeyN(MaxKeys)
  \/ KeyQuit
  \/ \E isSIGHUP \in BOOLEAN : ExitSignal(isSIGHUP)
  \/ \E i \in 1..Len(stops), ok \in BOOLEAN : CleanupSettles(i, ok)
  \/ \E i \in 1..Len(stops), outcome \in CancelOutcomes :
       StopCancelSettles(i, outcome)
  \/ \E b \in 1..Len(builds), outcome \in QueueOutcomes :
       QueueBuildSettles(b, outcome)
  \/ \E b \in 1..Len(builds), ok \in BOOLEAN : PollSettles(b, ok)

Spec == Init /\ [][Next]_vars

\* The sessions in which every remote call and every dev-server call
\* succeeds and nobody quits.
NextSteady ==
  \/ Start
  \/ \E who \in Callers(Cur) : ProvisionBuildSettles(who, "ok")
  \/ \E input \in WatchInputs : WatchEvent(input, SteadyEvents)
  \/ \E h \in 1..Len(handlers), outcome \in {"uploadRequired", "notRequired"} :
       NotifySettles(h, outcome)
  \/ \E task \in pending : UploadSettles(task, TRUE)
  \/ TimerExpires
  \/ KeyY(SteadyKeys)
  \/ KeyN(SteadyKeys)
  \/ \E b \in 1..Len(builds) : QueueBuildSettles(b, "ok")
  \/ \E b \in 1..Len(builds) : PollSettles(b, TRUE)

SpecSteady == Init /\ [][NextSteady]_vars


\* A single change event in a session under permission Always in which
\* every call succeeds; every call that was issued settles and an armed
\* timer expires.
InitCycle == Init /\ uploadPermission = "always"

NextCycle ==
  \/ Start
  \/ \E who \in Callers(Cur) : ProvisionBuildSettles(who, "ok")
  \/ \E input \in WATCH_EVENTS \X FilePaths : WatchEvent(input, 1)
  \/ \E h \in 1..Len(handlers), outcome \in NotifyOutcomes :
       NotifySettles(h, outcome)
  \/ \E task \in pending : UploadSettles(task, TRUE)
  \/ TimerExpires
  \/ \E b \in 1..Len(builds) : QueueBuildSettles(b, "ok")
  \/ \E b \in 1..Len(builds) : PollSettles(b, TRUE)

FairCycle ==
  /\ WF_vars(Start)
  /\ WF_vars(\E who \in Callers(Cur) : ProvisionBuildSettles(who, "ok"))
  /\ WF_vars(\E h \in 1..Len(handlers), outcome \in NotifyOutcomes :
               NotifySettles(h, outcome))
  /\ WF_vars(\E task \in pending : UploadSettles(task, TRUE))
  /\ WF_vars(TimerExpires)
  /\ WF_vars(\E b \in 1..Len(builds) : QueueBuildSettles(b, "ok"))
  /\ WF_vars(\E b \in 1..Len(builds) : PollSettles(b, TRUE))

SpecCycle == InitCycle /\ [][NextCycle]_vars /\ FairCycle

\* Sessions with every outcome of every call, in which the awaits of a
\* stop() invocation settle: watcher.close() and DevServerManager.cleanup()
\* (its failure is caught), then cancelStagedBuild.
NextShutdown ==
  \/ Start
  \/ \E who \in Callers(Cur), outcome \in ProvisionOutcomes :
       ProvisionBuildSettles(who, outcome)
  \/ \E who \in Callers(Cur), ok \in BOOLEAN : LockedCancelSettles(who, ok)
  \/ \E input \in WatchInputs : WatchEvent(input, FairEvents)
  \/ \E h \in 1..Len(handlers), outcome \in NotifyOutcomes :
       NotifySettles(h, outcome)
  \/ \E task \in pending, ok \in BOOLEAN : UploadSettles(task, ok)
  \/ TimerExpires
  \/ KeyY(MaxKeys)
  \/ KeyN(MaxKeys)
  \/ KeyQuit
  \/ \E isSIGHUP \in BOOLEAN : ExitSignal(isSIGHUP)
  \/ \E i \in 1..Len(stops), ok \in BOOLEAN : CleanupSettles(i, ok)
  \/ \E i \in 1..Len(stops), outcome \in CancelOutcomes :
       StopCancelSettles(i, outcome)
  \/ \E b \in 1..Len(builds), outcome \in QueueOutcomes :
       QueueBuildSettles(b, outcome)
  \/ \E b \in 1..Len(builds), ok \in BOOLEAN : PollSettles(b, ok)

FairShutdown ==
  /\ WF_vars(\E i \in 1..Len(stops), ok \in BOOLEAN : CleanupSettles(i, ok))
  /\ WF_vars(\E i \in 1..Len(stops), outcome \in CancelOutcomes :
               StopCancelSettles(i, outcome))

SpecShutdown == Init /\ [][NextShutdown]_vars /\ FairShutdown

\* The sessions of SpecSteady in which the remote queueBuild call may also
\* fail with an error that is not a missing provision.
NextQueueFail ==
  \/ Start
  \/ \E who \in Callers(Cur) : ProvisionBuildSettles(who, "ok")
  \/ \E input \in WatchInputs : WatchEvent(input, SteadyEvents)
  \/ \E h \in 1..Len(handlers), outcome \in {"uploadRequired", "notRequired"} :
       NotifySettles(h, outcome)
  \/ \E task \in pending : UploadSettles(task, TRUE)
  \/ TimerExpires
  \/ KeyY(SteadyKeys)
  \/ KeyN(SteadyKeys)
  \/ \E b \in 1..Len(builds), outcome \in {"ok", "error"} :
       QueueBuildSettles(b, outcome)
  \/ \E b \in 1..Len(builds) : PollSettles(b, TRUE)

SpecQueueFail == Init /\ [][NextQueueFail]_vars

\* Sessions under permission Always in which every event is classified
\* upload-required and every remote call succeeds; every call that was
\* issued settles and an armed timer expires.
NextStandby ==
  \/ Start
  \/ \E who \in Callers(Cur) : ProvisionBuildSettles(who, "ok")
  \/ \E input \in WatchInputs : WatchEvent(input, SteadyEvents)
  \/ \E h \in 1..Len(handlers) : NotifySettles(h, "uploadRequired")
  \/ \E task \in pending : UploadSettles(task, TRUE)
  \/ TimerExpires
  \/ \E b \in 1..Len(builds) : QueueBuildSettles(b, "ok")
  \/ \E b \in 1..Len(builds) : PollSettles(b, TRUE)

FairStandby ==
  /\ WF_vars(Start)
  /\ WF_vars(\E who \in Callers(Cur) : ProvisionBuildSettles(who, "ok"))
  /\ WF_vars(\E h \in 1..Len(handlers) : NotifySettles(h, "uploadRequired"))
  /\ WF_vars(\E task \in pending : UploadSettles(task, TRUE))
  /\ WF_vars(TimerExpires)
  /\ WF_vars(\E b \in 1..Len(builds) : QueueBuildSettles(b, "ok"))
  /\ WF_vars(\E b \in 1..Len(builds) : PollSettles(b, TRUE))

SpecStandby == InitCycle /\ [][NextStandby]_vars /\ FairStandby

\* Sessions under permission Always in which the bridge classifies each
\* event as supported or as upload-required and every remote call
\* succeeds.
StepsBuilt ==
  \/ Start
  \/ \E who \in Callers(Cur) : ProvisionBuildSettles(who, "ok")
  \/ \E h \in 1..Len(handlers), outcome \in {"uploadRequired", "notRequired"} :
       NotifySettles(h, outcome)
  \/ \E task \in pending : UploadSettles(task, TRUE)
  \/ TimerExpires
  \/ \E b \in 1..Len(builds) : QueueBuildSettles(b, "ok")
  \/ \E b \in 1..Len(builds) : PollSettles(b, TRUE)

NextBuilt ==
  \/ \E input \in WatchInputs : WatchEvent(input, SteadyEvents)
  \/ StepsBuilt

\* The event loop runs a ready callback as long as there is one: a call
\* that was issued settles and an armed timer expires.  File events are
\* not owed.
FairBuilt == WF_vars(StepsBuilt)

SpecBuilt == InitCycle /\ [][NextBuilt]_vars /\ FairBuilt

\* Sessions under permission Always with enough changes of one file to
\* submit more tasks than the upload queue runs at once: the bridge
\* classifies the changes as supported and at most one of them as
\* upload-required.  The events come one after the other, each handled
\* before the next is delivered; every remote call succeeds and the
\* uploads complete in the order they were started.
StepsBurst ==
  \/ Start
  \/ \E who \in Callers(Cur) : ProvisionBuildSettles(who, "ok")
  \/ \E h \in 1..Len(handlers), outcome \in {"uploadRequired", "notRequired"} :
       /\ outcome = "uploadRequired"
            => \A g \in 1..Len(handlers) : handlers[g].notify # outcome
       /\ NotifySettles(h, outcome)
  \/ \E task \in pending :
       /\ \A other \in pending : task.id <= other.id
       /\ UploadSettles(task, TRUE)
  \/ TimerExpires
  \/ \E b \in 1..Len(builds) : QueueBuildSettles(b, "ok")
  \/ \E b \in 1..Len(builds) : PollSettles(b, TRUE)

NextBurst ==
  \/ /\ \A h \in 1..Len(handlers) : handlers[h].pc = "done"
     /\ WatchEvent(<<"change", "proj/src/App.jsx">>, Concurrency + BurstExtra)
  \/ StepsBurst

SpecBurst == InitCycle /\ [][NextBurst]_vars

\* addChangeToStandbyQueue on its own: a caller hands it a change; the
\* caller's record keeps the argument.
PushChange(input) ==
  /\ exitCode = "none" /\ mainPc = "start"
  /\ Len(handlers) < MaxPushes
  /\ LET h == Len(handlers) + 1
         changeInfo == [id |-> h, event |-> input.event,
                        filePath |-> input.filePath,
                        remotePath |-> RemotePath(input.filePath),
                        supported |-> input.supported]
         s1 == [Cur EXCEPT !.handlers = Append(@,
                  [pc |-> "done", change |-> changeInfo, notify |-> "none",
                   group |-> 0])]
     IN  Becomes(addChangeToStandbyQueue(s1, changeInfo))

NextPush == \E input \in PushInputs : PushChange(input)

SpecPush == Init /\ [][NextPush]_vars

\* ============================================================ claims
QueuedTasks == {queue[i] : i \in 1..Len(queue)}
StopCancelCalls == Cardinality({i \in 1..Len(stops) : stops[i].cancelCalls > 0})

\* C1 Drain-before-queue: whenever a queueBuild invocation issues the remote
\* queueBuild call, the upload queue is paused and no upload or delete call
\* is in flight.
C1_DrainBeforeQueue ==
  [][\A b \in 1..Len(builds') :
       (/\ builds'[b].pc = "queueBuild"
        /\ (b > Len(builds) \/ builds[b].pc = "onIdle"))
         => (isPaused' /\ pending' = {})]_vars

\* C2 Debounce coalescing: at most one debounce timer is pending, and every
\* burst of arm-calls (arm-calls with no expiry between them) ends in exactly
\* one expiry, that is one queueBuild invocation: the expiries so far plus
\* the pending timer are the bursts so far.
C2_DebounceCoalescing ==
  /\ timers <= 1
  /\ calls.timerBuilds + timers = calls.bursts

\* Two upload-required events were handled within one burst and the timer
\* has expired once.
C2_Witness ==
  /\ uploadPermission = "always"
  /\ Cardinality({t \in sent : t.group = 0}) = 2
  /\ calls.bursts = 1 /\ calls.timerBuilds = 1 /\ Len(builds) = 1

\* C3 Flush is atomic: no entry leaves the standby buffer without having
\* been scheduled as an upload-queue task.
C3_FlushAtomic ==
  [][exitCode' = "none" =>
       \A i \in 1..Len(standbyChanges) :
          (\A j \in 1..Len(standbyChanges') :
              standbyChanges'[j].id # standbyChanges[i].id)
            => standbyChanges[i].id \in flushed']_vars

\* C4 End-to-end cycle: under permission Always with every call succeeding,
\* a single upload-required change leads to one upload task, exactly one
\* remote queueBuild call, the deploy, a newly provisioned staged build, the
\* upload queue resumed and the status clean, and the session stays there.
C4_Required ==
  \E h \in 1..Len(handlers) : handlers[h].notify \in {"uploadRequired", "throws"}

C4_Witness ==
  /\ C4_Required
  /\ Cardinality(sent) = 1 /\ nextTask = 1
  /\ calls.queueBuild = 1 /\ calls.timerBuilds = 1
  /\ Len(builds) = 1 /\ builds[1].pc = "done"
  /\ calls.provisionBuild = 2 /\ currentStagedBuildId = 2 /\ staged = {2}
  /\ ~isPaused /\ pending = {} /\ queue = << >> /\ timers = 0
  /\ devModeStatus = "clean"

C4_EndToEnd == [](C4_Required => <>[]C4_Witness)

\* C5 Permission Never never uploads: under permission Never no upload or
\* delete call is ever made and no task is ever submitted, and every event
\* classified upload-required sets the status to noUploadsAllowed.
C5_NeverUploads ==
  [][uploadPermission = "never" =>
       /\ sent' = {} /\ pending' = {} /\ queue' = << >> /\ nextTask' = 0
       /\ \A h \in 1..Len(handlers) :
            (/\ handlers[h].pc = "notifyServers"
             /\ h <= Len(handlers')
             /\ handlers'[h].notify \in {"uploadRequired", "throws"})
              => devModeStatus' = "noUploadsAllowed"]_vars

C5_Witness ==
  /\ uploadPermission = "never"
  /\ Len(handlers) = 2
  /\ \A h \in 1..2 : handlers[h].notify = "uploadRequired"
  /\ devModeStatus = "noUploadsAllowed"

\* C6 Fail-safe classification: when DevServerManager.notify throws for an
\* event, the handler does exactly what it does for uploadRequired = true:
\* executeServers is not called, the event is not marked supported (no
\* supported standby entry for it, the status is not set to supportedChange),
\* and the process keeps running.
C6_FailSafe ==
  [][\A h \in 1..Len(handlers) :
       (/\ handlers[h].pc = "notifyServers"
        /\ h <= Len(handlers')
        /\ handlers'[h].notify = "throws")
         => /\ exitCode' = "none"
            /\ calls'.executeServers = calls.executeServers
            /\ (devModeStatus' = "supportedChange"
                  => devModeStatus = "supportedChange")
            /\ \A j \in 1..Len(standbyChanges') :
                 standbyChanges'[j].id = h => ~standbyChanges'[j].supported
            /\ [Cur' EXCEPT !.handlers[h].notify = "uploadRequired"]
                 = handleWatchEvent(Cur, h, "uploadRequired", TRUE)]_vars

C6_Witness ==
  \E h \in 1..Len(handlers) :
     /\ handlers[h].notify = "throws"
     /\ \/ devModeStatus \in {"manualUploadRequired", "noUploadsAllowed"}
        \/ \E t \in sent : t.change.id = h

\* C7 Standby flush preserves order: the tasks a flush submits are the
\* entries of the standby buffer, one task each, submitted in the order of
\* the buffer (a task's id is its submission number).
C7_FlushOrder ==
  [][Len(groups') = Len(groups) + 1 =>
       LET g == Len(groups')
           T == {t \in pending' \cup QueuedTasks' : t.group = g}
       IN  /\ Cardinality(T) = Len(standbyChanges)
           /\ \A i \in 1..Len(standbyChanges) :
                \E t \in T : /\ t.id = nextTask + i
                             /\ t.change = standbyChanges[i]]_vars

\* A flush has submitted two entries for two files.
C7_Witness ==
  \E t1, t2 \in pending \cup QueuedTasks :
     /\ t1.group # 0 /\ t1.group = t2.group
     /\ t1.id < t2.id
     /\ t1.change.filePath # t2.change.filePath
     /\ Len(standbyChanges) >= 2
     /\ standbyChanges[1] = t1.change /\ standbyChanges[2] = t2.change

\* C8 Cancel on shutdown: a stop that finds currentStagedBuildId null calls
\* no cancelStagedBuild and exits with success; with a build staged,
\* cancelStagedBuild is called exactly once by the shutdown, however many
\* quit requests arrive.
C8_CancelOnShutdown ==
  [][/\ StopCancelCalls' <= 1
     /\ \A i \in 1..Len(stops) :
          ((\E ok \in BOOLEAN : CleanupSettles(i, ok))
             /\ currentStagedBuildId = NULL)
            => (exitCode' = "SUCCESS" /\ stops[i].cancelCalls = 0)
     /\ \A i \in 1..Len(stops) :
          ((\E ok \in BOOLEAN : CleanupSettles(i, ok))
             /\ currentStagedBuildId # NULL)
            => StopCancelCalls' = 1]_vars

\* C9 Hangup policy: the teardown of a hangup (stop(false)) does not call
\* cancelStagedBuild.
C9_HangupLeavesBuildOpen ==
  \A i \in 1..Len(stops) : stops[i].hangup => stops[i].cancelCalls = 0

\* C10 No two staged builds: provisionBuild is never called while a build
\* provisioned by this session is still staged.
C10_NoTwoStagedBuilds ==
  [][calls'.provisionBuild > calls.provisionBuild => staged = {}]_vars

GroupTasks(g, tasks) == {t \in tasks : t.group = g}

\* C11 Manual accept ordering: a 'y' approval first calls provisionBuild
\* and nothing else; when provisionBuild has completed it submits one task
\* per buffered standby change and does not call queueBuild yet; it calls
\* queueBuild only when every one of those uploads has been issued and has
\* settled (or nothing was buffered), at once and without a debounce timer.
C11_ManualAcceptOrder ==
  [][\A k \in 1..Len(keys') :
       /\ (k > Len(keys) /\ keys'[k].pc = "provisionBuild")
            => /\ calls'.provisionBuild = calls.provisionBuild + 1
               /\ nextTask' = nextTask /\ sent' = sent
               /\ builds' = builds /\ timers' = 0
       /\ (k <= Len(keys) /\ keys[k].pc = "provisionBuild"
              /\ keys'[k].pc = "flushStandbyChanges")
            => /\ currentStagedBuildId' = nextBuildId
               /\ currentStagedBuildId' \in staged'
               /\ Len(standbyChanges) > 0
               /\ {t.change : t \in GroupTasks(keys'[k].group,
                                               pending' \cup QueuedTasks')}
                    = {standbyChanges[i] : i \in 1..Len(standbyChanges)}
               /\ Len(builds') = Len(builds) /\ timers' = 0
       /\ (k <= Len(keys) /\ keys[k].pc # "done" /\ keys'[k].pc = "done")
            => /\ keys[k].pc = "provisionBuild" => standbyChanges = << >>
               /\ keys[k].pc = "flushStandbyChanges"
                    => /\ GroupTasks(keys[k].group,
                                     pending' \cup QueuedTasks') = {}
                       /\ groups'[keys[k].group].left = 0
                       /\ GroupTasks(keys[k].group, sent') # {}
               /\ Len(builds') = Len(builds) + 1
               /\ builds'[Len(builds')].src = "manual"
               /\ builds'[Len(builds')].pc \in {"onIdle", "queueBuild"}
               /\ builds'[Len(builds')].pc = "onIdle"
                    => (pending' # {} \/ queue' # << >>)
               /\ timers' = 0 /\ calls'.timerBuilds = 0]_vars

\* A manual approval has provisioned a build, uploaded the buffered change
\* and issued the remote queueBuild call, with no timer armed.
C11_Witness ==
  /\ uploadPermission = "manual"
  /\ Len(keys) = 1 /\ keys[1].pc = "done" /\ keys[1].group = 1
  /\ GroupTasks(1, sent) # {} /\ pending = {} /\ queue = << >>
  /\ calls.provisionBuild = 1 /\ currentStagedBuildId = 1
  /\ Len(builds) = 1 /\ builds[1].src = "manual"
  /\ builds[1].pc = "queueBuild" /\ calls.queueBuild = 1
  /\ calls.bursts = 0 /\ timers = 0

\* C12 Manual decline: an 'n' keypress changes nothing of the session: the
\* standby buffer, the upload queue, currentStagedBuildId and the remote
\* call counters are as before, nothing is uploaded, the process runs and
\* the watcher stays open, and a 'y' is still accepted for the retained
\* changes.
C12_ManualDecline ==
  [][(Len(keys') = Len(keys) + 1 /\ keys'[Len(keys')].pc = "declined")
       => /\ uploadPermission = "manual"
          /\ standbyChanges' = standbyChanges /\ standbyChanges # << >>
          /\ calls' = calls /\ sent' = sent /\ nextTask' = nextTask
          /\ queue' = queue /\ pending' = pending /\ isPaused' = isPaused
          /\ currentStagedBuildId' = currentStagedBuildId
          /\ staged' = staged /\ builds' = builds /\ timers' = timers
          /\ exitCode' = "none" /\ mainPc' = "watching"
          /\ watcherClosed' = watcherClosed
          /\ manualPrompt(Cur')]_vars

\* A change was declined and kept; a later event was handled and a later
\* 'y' uploaded the retained change.
C12_Witness ==
  /\ Len(keys) = 2 /\ keys[1].pc = "declined" /\ keys[2].pc = "done"
  /\ Len(handlers) = 2 /\ handlers[2].pc = "done"
  /\ \E t \in sent : t.change.id = 1 /\ t.group = keys[2].group
  /\ calls.provisionBuild = 1 /\ calls.queueBuild = 1

\* C13 Provision failure: a failed provisionBuild leaves
\* currentStagedBuildId as it was, is not retried, and ends in process exit
\* with the error code; cancelStagedBuild is called, once and before the
\* exit, exactly when the failure is PROJECT_LOCKED.
C13_ProvisionFailure ==
  [][\A who \in Callers(Cur) :
       /\ ProvisionBuildSettles(who, "error") => exitCode' = "ERROR"
       /\ ProvisionBuildSettles(who, "PROJECT_LOCKED")
            => /\ exitCode' = "none"
               /\ currentStagedBuildId' = currentStagedBuildId
               /\ calls'.provisionBuild = calls.provisionBuild
               /\ calls'.cancelStagedBuild = calls.cancelStagedBuild + 1
       /\ \A ok \in BOOLEAN :
            LockedCancelSettles(who, ok) => exitCode' = "ERROR"]_vars

\* C14 Queue conflict: when the remote queueBuild call fails with
\* MISSING_PROJECT_PROVISION the invocation calls stop() (the watcher is
\* closed, the teardown is under way) and returns: it polls nothing,
\* provisions nothing and does not resume the upload queue, then or later;
\* the teardown ends in process exit.
C14_QueueConflict ==
  /\ [][\A b \in 1..Len(builds) :
          /\ QueueBuildSettles(b, "MISSING_PROJECT_PROVISION")
               => /\ builds'[b].pc = "done"
                  /\ Len(stops') = Len(stops) + 1
                  /\ stops'[Len(stops')].pc = "stopWatching"
                  /\ watcherClosed'
                  /\ calls' = calls
                  /\ currentStagedBuildId' = currentStagedBuildId
                  /\ isPaused' = isPaused /\ queue' = queue
                  /\ pending' = pending /\ exitCode' = "none"
          /\ (builds[b].pc = "done" /\ b <= Len(builds'))
               => builds'[b].pc = "done"]_vars
  /\ (Len(stops) > 0) ~> (exitCode # "none")

\* The remote queueBuild call failed with a missing provision, no quit was
\* requested, and the stop() it called has cleaned up and is cancelling the
\* staged build.
C14_Witness ==
  /\ nQuits = 0 /\ Len(stops) = 1 /\ stops[1].pc = "cancelStagedBuild"
  /\ Len(builds) = 1 /\ builds[1].pc = "done"
  /\ calls.queueBuild = 1 /\ calls.provisionBuild = 1
  /\ watcherClosed /\ isPaused

\* C15 Other queue failure: when the remote queueBuild call fails with an
\* error other than MISSING_PROJECT_PROVISION the invocation returns: the
\* build stays staged and currentStagedBuildId is as before, nothing is
\* polled or provisioned, the process keeps running with its watcher, and
\* the upload queue is paused.
C15_OtherQueueFailure ==
  [][\A b \in 1..Len(builds) :
       /\ QueueBuildSettles(b, "error")
            => /\ builds'[b].pc = "done"
               /\ currentStagedBuildId' = currentStagedBuildId
               /\ staged' = staged
               /\ calls' = calls
               /\ exitCode' = "none" /\ stops' = stops
               /\ watcherClosed' = watcherClosed
               /\ isPaused'
       /\ (builds[b].pc = "done" /\ b <= Len(builds'))
            => builds'[b].pc = "done"]_vars

\* C16 Shutdown exit status: every stop() invocation ends in process exit.
\* After the cleanup, failed or not, it exits with success when no build is
\* staged and calls cancelStagedBuild otherwise; it then exits with success
\* when the cancel succeeds or fails with BUILD_NOT_IN_PROGRESS and with the
\* error status when the cancel fails in any other way.
C16_ShutdownExitStatus ==
  /\ [][\A i \in 1..Len(stops) :
          /\ \A ok \in BOOLEAN :
               CleanupSettles(i, ok)
                 => IF currentStagedBuildId = NULL
                      THEN exitCode' = "SUCCESS"
                      ELSE /\ exitCode' = "none"
                           /\ stops'[i].pc = "cancelStagedBuild"
                           /\ calls'.cancelStagedBuild
                                = calls.cancelStagedBuild + 1
          /\ StopCancelSettles(i, "ok") => exitCode' = "SUCCESS"
          /\ StopCancelSettles(i, "BUILD_NOT_IN_PROGRESS")
               => exitCode' = "SUCCESS"
          /\ StopCancelSettles(i, "error") => exitCode' = "ERROR"]_vars
  /\ [][(exitCode = "none" /\ exitCode' = "ERROR")
         => \/ \E i \in 1..Len(stops) : StopCancelSettles(i, "error")
            \/ \E who \in Callers(Cur) :
                  callerPc(Cur, who) \in {"provisionBuild",
                                           "cancelStagedBuild"}]_vars
  /\ \A n \in 1..MaxQuits : (Len(stops) >= n) ~> (exitCode # "none")

\* A stop() invocation has cleaned up and is cancelling the staged build.
C16_Witness ==
  /\ Len(stops) = 1 /\ stops[1].pc = "cancelStagedBuild"
  /\ nQuits = 1 /\ currentStagedBuildId # NULL /\ exitCode = "none"

\* C17 Error containment: once watching has started, no queueBuild
\* invocation (the debounce-timer callback, or the continuation of the 'y'
\* handler) and no 'y' handler ends rejected by a failed remote call.
C17_ErrorContainment ==
  mainPc = "watching"
    => /\ \A b \in 1..Len(builds) : builds[b].pc # "rejected"
       /\ \A k \in 1..Len(keys) : keys[k].pc # "rejected"

\* C18 Transient upload failure: when uploadFileToBuild or
\* deleteFileFromBuild fails, the task completes: it leaves the upload
\* queue, its change is not submitted again and is not put into the standby
\* buffer, the session is not stopped, and a debounce timer that is armed
\* stays armed until it expires and calls queueBuild.
C18_TransientUploadFailure ==
  /\ [][\A task \in pending :
          UploadSettles(task, FALSE)
            => /\ task \notin pending' \cup QueuedTasks'
               /\ \A u \in pending' \cup QueuedTasks' :
                    u.change.id = task.change.id => u.id <= nextTask
               /\ \A j \in 1..Len(standbyChanges') :
                    standbyChanges'[j].id = task.change.id
                      => \E i \in 1..Len(standbyChanges) :
                            standbyChanges[i].id = task.change.id
               /\ exitCode' = "none" /\ stops' = stops
               /\ watcherClosed' = watcherClosed
               /\ task.group = 0 => nextTask' = nextTask
               /\ timers > 0 => timers' > 0]_vars
  /\ [][(timers > 0 /\ exitCode' = "none")
         => \/ timers' > 0
            \/ /\ Len(builds') = Len(builds) + 1
               /\ builds'[Len(builds')].src = "timer"]_vars

\* The only upload of the session failed; it was not repeated, and the
\* timer armed with it has expired and called queueBuild.
C18_Witness ==
  /\ uploadPermission = "always" /\ exitCode = "none"
  /\ calls.failedUploads = 1 /\ Cardinality(sent) = 1 /\ nextTask = 1
  /\ pending = {} /\ queue = << >> /\ standbyChanges = << >>
  /\ calls.timerBuilds = 1 /\ Len(builds) = 1 /\ builds[1].src = "timer"
  /\ calls.queueBuild = 1

\* An upload-required event for filePath has arrived while the upload queue
\* is paused, and no upload or delete call was made for the path so far.
PausedArrival(filePath) ==
  /\ uploadPermission = "always" /\ isPaused
  /\ \E h \in 1..Len(handlers) :
        /\ handlers[h].pc = "notifyServers"
        /\ handlers[h].change.filePath = filePath
  /\ \A t \in sent : t.change.filePath # filePath

\* C19 Standby liveness: under permission Always with every remote call
\* succeeding, an upload-required change that arrives for a path while the
\* upload queue is paused leads to an upload or delete call for that path,
\* with no further file event.
C19_StandbyLiveness ==
  \A filePath \in FilePaths :
     PausedArrival(filePath)
       ~> (\E t \in sent : t.change.filePath = filePath)

\* C20 No flush while paused: whenever flushStandbyChanges is called with a
\* non-empty standby buffer (it then submits its tasks and awaits them),
\* the upload queue is not paused.
C20_NoFlushWhilePaused ==
  [][Len(groups') > Len(groups) => ~isPaused']_vars

\* C21 Run-to-completion of events: the handling of a file event is
\* complete (classified, routed, buffered or enqueued) before a step of the
\* handling of a later event runs: at most one handleWatchEvent invocation
\* is in progress, and a new one starts only when all earlier ones are done.
C21_RunToCompletion ==
  \A h1, h2 \in 1..Len(handlers) :
     h1 < h2 => handlers[h1].pc = "done"

\* C22 buildId meaning: currentStagedBuildId is null exactly when the
\* session has no open build: when it is not null, the build it names is
\* staged, or a build of the session is queued and awaiting its deploy (a
\* build whose poll failed may still be awaiting it, and one that deployed
\* under permission always is just being replaced); when it is null no
\* build of the session is staged.
C22_BuildIdMeaning ==
  /\ currentStagedBuildId # NULL
       => \/ currentStagedBuildId \in staged
          \/ \E b \in 1..Len(builds) :
                builds[b].pc \in {"poll", "rejected", "provisionBuild"}
  /\ currentStagedBuildId = NULL => staged = {}

\* C23 Standby uniqueness: the standby buffer never holds two entries for
\* the same file path, whatever mix of supported and unsupported changes
\* was pushed.
C23_StandbyUnique ==
  \A i, j \in 1..Len(standbyChanges) :
     i < j => standbyChanges[i].filePath # standbyChanges[j].filePath

\* Every event handled so far was classified supported (or not classified:
\* still with the bridge, or below a dist directory).
AllSupported ==
  \A h \in 1..Len(handlers) : handlers[h].notify \in {"none", "notRequired"}

\* C24 Supported changes stay local: handling an event for which the
\* bridge reports uploadRequired = false sets the status to
\* supportedChange, calls executeServers exactly once, and enqueues no
\* upload task, arms no debounce timer, runs no flush and starts no build;
\* the session goes on even when executeServers fails.  While every event
\* of the session is classified supported there is no upload or delete
\* call, no queueBuild call and no provisionBuild call after the one of
\* start().
C24_SupportedStaysLocal ==
  /\ [][\A h \in 1..Len(handlers) :
          NotifySettles(h, "notRequired")
            => /\ devModeStatus' = "supportedChange"
               /\ calls'.executeServers = calls.executeServers + 1
               /\ queue' = queue /\ pending' = pending /\ sent' = sent
               /\ nextTask' = nextTask /\ flushed' = flushed
               /\ timers' = timers /\ debouncedBuild' = debouncedBuild
               /\ builds' = builds /\ stops' = stops
               /\ exitCode' = "none" /\ mainPc' = mainPc
               /\ watcherClosed' = watcherClosed]_vars
  /\ [](AllSupported
          => /\ sent = {} /\ pending = {} /\ queue = << >>
             /\ timers = 0 /\ builds = << >>
             /\ calls.queueBuild = 0
             /\ calls.provisionBuild
                  <= IF uploadPermission = "always" THEN 1 ELSE 0)

\* executeServers failed for a supported change and the session goes on.
C24_Witness ==
  /\ exitCode = "none" /\ mainPc = "watching" /\ ~watcherClosed
  /\ calls.executeServers = 1 /\ calls.failedExecutes = 1
  /\ devModeStatus = "supportedChange"
  /\ Len(handlers) = 1 /\ handlers[1].notify = "notRequired"
  /\ Len(standbyChanges) = 1 /\ standbyChanges[1].supported

\* C25 Status faithfulness: whenever the displayed status is clean, no
\* upload-required change is outstanding: the standby buffer holds no
\* unsupported entry, no upload task is waiting or in flight in the upload
\* queue, and no debounce timer is armed.
C25_CleanIsFaithful ==
  (Running(Cur) /\ devModeStatus = "clean")
    => /\ ~hasAnyUnsupportedStandbyChanges(Cur)
       /\ queue = << >> /\ pending = {}
       /\ timers = 0

\* The buffer holds an upload-required entry for filePath whose event is
\* not the given one.
BufferedOtherIntent(filePath, event) ==
  \E i \in 1..Len(standbyChanges) :
     /\ standbyChanges[i].filePath = filePath
     /\ ~standbyChanges[i].supported
     /\ standbyChanges[i].event # event

\* C26 Latest intent wins: when an upload-required event for a path
\* arrives while the queue is paused or manual approval is pending, and
\* the buffer already holds an upload-required change of another kind for
\* that path, the buffer afterwards holds for that path the kind of the
\* latest event, which is the operation the flush performs for it
\* (delete for unlink, not upload).
C26_LatestIntentWins ==
  [][\A h \in 1..Len(handlers) :
       LET change == handlers[h].change
       IN  ( /\ NotifySettles(h, "uploadRequired")
             /\ \/ uploadPermission = "manual"
                \/ uploadPermission = "always" /\ isPaused
             /\ BufferedOtherIntent(change.filePath, change.event) )
           => \A i \in 1..Len(standbyChanges') :
                 (standbyChanges'[i].filePath = change.filePath
                    /\ ~standbyChanges'[i].supported)
                 => standbyChanges'[i].event = change.event]_vars

\* C27 Standby push filter: addChangeToStandbyQueue appends the change to
\* the end of the buffer if and only if (its event is unlink or unlinkDir,
\* or its file has an allowed extension) and the ignore rules do not match
\* its path; in every other case the buffer is left as it was.
C27_PushFilter ==
  [][\A input \in PushInputs :
       PushChange(input)
         => LET c == handlers'[Len(handlers')].change
            IN  standbyChanges'
                  = IF /\ \/ c.event \in {"unlink", "unlinkDir"}
                          \/ isAllowedExtension(c.filePath)
                       /\ ~shouldIgnoreFile(c.filePath)
                      THEN Append(standbyChanges, c)
                      ELSE standbyChanges]_vars

\* The deletion of a file of another extension was appended, then the
\* addition of an ignored file of an allowed extension was dropped.
C27_Witness ==
  /\ Len(handlers) = 2
  /\ handlers[1].change.event = "unlinkDir"
  /\ handlers[1].change.filePath = "proj/src/index.html"
  /\ handlers[2].change.event = "add"
  /\ handlers[2].change.filePath = "proj/src/node_modules/lib.jsx"
  /\ standbyChanges = << handlers[1].change >>

\* C28 Keypress guard: a 'y' or 'n' keypress has an effect (a build
\* provisioned, a flush, a queueBuild, any change of the buffer, the build
\* id or the queue) only when the upload permission is manual and the
\* standby buffer holds at least one unsupported entry; 'q' or ctrl-c
\* starts a shutdown under every upload permission.
C28_KeypressGuard ==
  /\ [][(KeyY(MaxKeys) \/ KeyN(MaxKeys))
          => /\ uploadPermission = "manual"
             /\ \E i \in 1..Len(standbyChanges) :
                   ~standbyChanges[i].supported]_vars
  /\ [][KeyQuit
          => /\ Len(stops') = Len(stops) + 1
             /\ stops'[Len(stops')].pc = "stopWatching"
             /\ watcherClosed']_vars
  /\ [](\A p \in UPLOAD_PERMISSIONS :
          (uploadPermission = p /\ exitCode = "none" /\ mainPc = "watching"
             /\ nQuits < MaxQuits)
          => ENABLED KeyQuit)

\* Under permission always the buffer holds an unsupported change, so that
\* only the permission keeps 'y' and 'n' from acting, and 'q' has started
\* a shutdown.
C28_Witness ==
  /\ uploadPermission = "always" /\ exitCode = "none"
  /\ hasAnyUnsupportedStandbyChanges(Cur)
  /\ keys = << >>
  /\ Len(stops) = 1 /\ stops[1].pc = "stopWatching" /\ watcherClosed

\* C29 Only upload-required changes are uploaded: every uploadFileToBuild
\* or deleteFileFromBuild call is made for a change classified
\* upload-required (supported = false); a change classified supported is
\* never sent to the remote build, also when the standby buffer is
\* flushed.
C29_OnlyRequiredUploaded ==
  \A t \in sent : ~t.change.supported

\* C30 Prompt and approval agree: under permission manual, whenever the
\* manual-upload prompt has been shown for an upload-required change
\* (status manualUploadRequired), a 'y' keypress is accepted, that is the
\* guard of the keypress listener holds; the provisionBuild, the upload or
\* delete of the change and the queueBuild call the claim promises all
\* follow from that acceptance.
C30_PromptAgrees ==
  ( /\ exitCode = "none" /\ mainPc = "watching"
    /\ uploadPermission = "manual"
    /\ devModeStatus = "manualUploadRequired" )
  => hasAnyUnsupportedStandbyChanges(Cur)

\* The build ids a session of the bounded model can be given.
BuildIds == 1..(SteadyEvents + 1)

\* C31 Every upload gets built: under permission always with every remote
\* call succeeding, a staged build that an upload or delete call has
\* reached is eventually queued (it does not stay staged), with no further
\* file event needed.
C31_EveryUploadBuilt ==
  \A id \in BuildIds :
     (id \in staged /\ \E t \in sent : id \in t.staged) ~> (id \notin staged)

\* Nothing is in flight: no remote or bridge call is awaiting its result
\* and no timer is armed, so that only a new file event or keypress can
\* make the session move.
Quiescent ==
  /\ exitCode = "none" /\ mainPc = "watching"
  /\ pending = {} /\ timers = 0
  /\ \A h \in 1..Len(handlers) : handlers[h].pc # "notifyServers"
  /\ \A b \in 1..Len(builds) :
        builds[b].pc \notin {"queueBuild", "poll", "provisionBuild"}
  /\ \A k \in 1..Len(keys) : keys[k].pc # "provisionBuild"
  /\ stops = << >>

\* C32 Pause terminates: once a queueBuild invocation has started, its
\* pauseUploadQueue returns and the remote queueBuild call is issued as
\* soon as every in-flight upload or delete has completed, also when more
\* tasks were submitted than the queue runs at once; that is, no
\* invocation is still waiting in pauseUploadQueue when nothing is in
\* flight any more.
C32_PauseTerminates ==
  Quiescent => \A b \in 1..Len(builds) : builds[b].pc # "onIdle"

\* C33 At most one upload per buffered change: an entry pushed into the
\* standby buffer results in at most one uploadFileToBuild or
\* deleteFileFromBuild call, also when flushStandbyChanges is invoked
\* again while an earlier flush has not finished.
C33_OneUploadPerEntry ==
  \A t1, t2 \in sent :
     (t1.group # 0 /\ t2.group # 0 /\ t1.change.id = t2.change.id)
       => t1.id = t2.id

\* C34 Uploads target an open staged build: every uploadFileToBuild or
\* deleteFileFromBuild call starts while a build provisioned by the
\* session is staged, and not between a remote queueBuild call and the end
\* of the deploy and re-provision that follow it.
C34_UploadsTargetOpenBuild ==
  [][\A t \in sent' \ sent :
       /\ t.staged # {}
       /\ \A b \in 1..Len(builds') :
             builds'[b].pc \notin {"queueBuild", "poll", "provisionBuild"}]_vars

\* C35 Quiescence after quit: once stop() has begun, no new remote
\* queueBuild, provisionBuild, uploadFileToBuild or deleteFileFromBuild
\* call is initiated; a debounce timer armed before the quit does not fire
\* a build while or after the staged build is being cancelled.
C35_QuiescenceAfterQuit ==
  [][(stops # << >> /\ exitCode' = "none")
       => /\ calls'.queueBuild = calls.queueBuild
          /\ calls'.provisionBuild = calls.provisionBuild
          /\ sent' = sent]_vars

=============================================================================
